---------------------------- MODULE Spec2Model ----------------------------
(***************************************************************************)
(* Model of the marathon training agent's function tools                   *)
(* (src/tools/training_tools.py) and of its store of user profiles         *)
(* (src/sessions/profile_manager.py).                                      *)
(*                                                                         *)
(* Numbers.  The tools compute on Python floats.  A number is modelled as  *)
(* an exact rational [n |-> numerator, d |-> denominator] in lowest terms  *)
(* with d > 0; round(x, k) is round-half-to-even at k decimals and yields  *)
(* a rational again.  On the arguments enumerated below the means, paces   *)
(* and predictions the program computes in binary floating point round and *)
(* compare as these exact values do.                                       *)
(*                                                                         *)
(* A call either returns a dictionary (a record) or raises an exception;   *)
(* the state of the model is the last call made and its outcome, the       *)
(* condition of the exercise library file that the tools read and the      *)
(* number of times it has been opened, an earlier call that the caller has *)
(* kept to compare a later one with, the users file, and the position and  *)
(* the local variables of the terminal session (src/main.py,               *)
(* src/sessions/setup_profile.py).                                         *)
(***************************************************************************)
EXTENDS Integers, Sequences, FiniteSets, TLC

VARIABLES
    fn,            \* the tool called last, "none" before the first call
    args,          \* the arguments of that call
    out,           \* its outcome: Return(dictionary) or Raise(exception)
    library_file,  \* the condition of data/exercise_library.json
    library_opens, \* the number of times that file has been opened
    kept,          \* an earlier call and its outcome, None if none is kept
    users_file,    \* users.json: whether it exists, and its list of users
    pc,            \* the prompt the terminal session waits at, "idle" if none
    typed,         \* the line the user typed last, <<>> before the first
    draft,         \* setup_profile's local profile, as filled in so far
    login,         \* get_user_profile's email, <<>> before it is typed
    caller,        \* the caller setup_profile returns to
    agent,         \* how the last run_debug of an agent ended, "none" before
    updates        \* the number of profile updates made from the main menu

\* the variables of the terminal session
session_vars == <<pc, typed, draft, login, caller, agent, updates>>

vars == <<fn, args, out, library_file, library_opens, kept, users_file, pc, typed, draft, login, caller, agent, updates>>

(***************************************************************************)
(* Exact rational arithmetic (the value model of Python's float).          *)
(***************************************************************************)
Abs(i) == IF i < 0 THEN -i ELSE i

RECURSIVE GCD(_, _)
GCD(a, b) == IF b = 0 THEN a ELSE GCD(b, a % b)

\* n / d in lowest terms with a positive denominator (d # 0)
Rat(n, d) ==
    LET g == GCD(Abs(n), Abs(d))
        s == IF d < 0 THEN -1 ELSE 1
    IN  [n |-> s * (n \div g), d |-> s * (d \div g)]

RInt(i) == [n |-> i, d |-> 1]

\* the operands are brought to their least common denominator, and products
\* are cancelled before they are formed, so that intermediate values stay small
RAdd(a, b) ==
    LET g == GCD(a.d, b.d)
    IN  Rat(a.n * (b.d \div g) + b.n * (a.d \div g), a.d * (b.d \div g))
RNeg(a) == [n |-> -a.n, d |-> a.d]
RSub(a, b) == RAdd(a, RNeg(b))
RMul(a, b) ==
    LET g1 == GCD(Abs(a.n), b.d)
        g2 == GCD(Abs(b.n), a.d)
    IN  Rat((a.n \div g1) * (b.n \div g2), (a.d \div g2) * (b.d \div g1))
\* b # 0
RDiv(a, b) == RMul(a, Rat(b.d, b.n))
RLt(a, b) ==
    LET g == GCD(a.d, b.d)
    IN  a.n * (b.d \div g) < b.n * (a.d \div g)
RLe(a, b) == ~RLt(b, a)
RGt(a, b) == RLt(b, a)
RGe(a, b) == ~RLt(a, b)
RMin(a, b) == IF RLe(a, b) THEN a ELSE b
RMax(a, b) == IF RGe(a, b) THEN a ELSE b

\* math.floor
Floor(a) == a.n \div a.d

Pow10(k) == IF k = 0 THEN 1 ELSE IF k = 1 THEN 10 ELSE 100

\* Python's round(x, k), k in 0..2: the multiple of 10^-k nearest to x,
\* a tie going to the even multiple
Round(a, k) ==
    LET x == RMul(a, RInt(Pow10(k)))
        f == Floor(x)
        r2 == 2 * (x.n - f * x.d)
        q == IF r2 < x.d THEN f
             ELSE IF r2 > x.d THEN f + 1
             ELSE IF f % 2 = 0 THEN f ELSE f + 1
    IN  Rat(q, Pow10(k))

\* Python's float floor division x // y and remainder x % y, for y > 0
FloorDiv(a, b) == RInt(Floor(RDiv(a, b)))
Mod(a, b) == RSub(a, RMul(b, FloorDiv(a, b)))

\* int(x): truncation toward zero
IntOf(a) == IF a.n >= 0 THEN a.n \div a.d ELSE -((-a.n) \div a.d)

RECURSIVE Sum(_)
Sum(s) == IF s = <<>> THEN 0 ELSE Head(s) + Sum(Tail(s))

\* a call's outcome: a returned dictionary or a raised exception
Return(d) == [kind |-> "return", value |-> d]
Raise(e) == [kind |-> "raise", exc |-> e]

\* Python's None
None == [none |-> TRUE]

(***************************************************************************)
(* calculate_acwr                                                          *)
(***************************************************************************)
\* RiskLevel with the upper threshold taken inclusively
RiskLevel_InclusiveHigh(ratio) ==
    IF RGe(ratio, Rat(15, 10)) THEN "HIGH"
    ELSE IF RGt(ratio, Rat(13, 10)) THEN "ELEVATED"
    ELSE IF RLt(ratio, Rat(8, 10)) THEN "UNDERTRAINING"
    ELSE "SAFE"

\* RiskLevel with the test for ELEVATED made before the test for HIGH
RiskLevel_ElevatedFirst(ratio) ==
    IF RGt(ratio, Rat(13, 10)) THEN "ELEVATED"
    ELSE IF RGt(ratio, Rat(15, 10)) THEN "HIGH"
    ELSE IF RLt(ratio, Rat(8, 10)) THEN "UNDERTRAINING"
    ELSE "SAFE"

RiskLevel(ratio) ==
    IF RGt(ratio, Rat(15, 10)) THEN "HIGH"
    ELSE IF RGt(ratio, Rat(13, 10)) THEN "ELEVATED"
    ELSE IF RLt(ratio, Rat(8, 10)) THEN "UNDERTRAINING"
    ELSE "SAFE"

AcwrRecommendation(risk_level) ==
    CASE risk_level = "HIGH" ->
           "REDUCE_LOAD_IMMEDIATELY - High injury risk detected"
      [] risk_level = "ELEVATED" ->
           "CAUTION - Monitor closely and consider reducing load"
      [] risk_level = "UNDERTRAINING" ->
           "Consider increasing training load gradually"
      [] OTHER ->
           "Training load is well-balanced - continue current progression"

calculate_acwr(last_7_days, last_28_days) ==
    LET acute_load == RDiv(RInt(Sum(last_7_days)), RInt(7))
        chronic_load == RDiv(RInt(Sum(last_28_days)), RInt(28))
    IN  IF chronic_load = RInt(0)
        THEN Return([status |-> "error",
                     ratio |-> RInt(0),
                     risk_level |-> "INSUFFICIENT_DATA",
                     recommendation |-> "Need at least 4 weeks of training data",
                     acute_load |-> acute_load,
                     chronic_load |-> RInt(0)])
        ELSE LET ratio == RDiv(acute_load, chronic_load)
                 risk_level == RiskLevel(ratio)
             IN  Return([status |-> "success",
                         ratio |-> Round(ratio, 2),
                         risk_level |-> risk_level,
                         recommendation |-> AcwrRecommendation(risk_level),
                         acute_load |-> Round(acute_load, 1),
                         chronic_load |-> Round(chronic_load, 1),
                         acute_weekly |-> Round(RMul(acute_load, RInt(7)), 1),
                         chronic_weekly |-> Round(RMul(chronic_load, RInt(7)), 1)])

(***************************************************************************)
(* adjust_paces_from_race                                                  *)
(***************************************************************************)
\* EstimatedVdot with the lower end of the range left out
EstimatedVdot_NoFloor(race_pace) ==
    LET estimated_vdot ==
            RAdd(RInt(35), RMul(RSub(RInt(10), race_pace), Rat(35, 10)))
    IN  RMin(RInt(85), estimated_vdot)

\* estimated_vdot, clamped to the reasonable range
EstimatedVdot(race_pace) ==
    LET estimated_vdot ==
            RAdd(RInt(35), RMul(RSub(RInt(10), race_pace), Rat(35, 10)))
    IN  RMax(RInt(25), RMin(RInt(85), estimated_vdot))

\* TrainingPaces with the tempo pace read off the clamped VDOT estimate
TrainingPaces_FromVdot(race_pace) ==
    [easy |-> RAdd(race_pace, Rat(15, 10)),
     tempo |-> RAdd(RSub(RInt(20), RDiv(EstimatedVdot(race_pace), Rat(35, 10))),
                    Rat(3, 10)),
     interval |-> RSub(race_pace, Rat(5, 10)),
     long_run |-> RAdd(race_pace, RInt(1))]

\* the training paces, offsets from the race pace
TrainingPaces(race_pace) ==
    [easy |-> RAdd(race_pace, Rat(15, 10)),
     tempo |-> RAdd(race_pace, Rat(3, 10)),
     interval |-> RSub(race_pace, Rat(5, 10)),
     long_run |-> RAdd(race_pace, RInt(1))]

\* MarathonFactor with the 2% band reaching down to 13 miles
MarathonFactor_WideTop(race_distance_miles) ==
    IF RGe(race_distance_miles, RInt(13)) THEN Rat(102, 100)
    ELSE Rat(108, 100)

\* MarathonFactor with the band boundaries taken exclusively
MarathonFactor_Exclusive(race_distance_miles) ==
    IF RGt(race_distance_miles, RInt(20)) THEN Rat(102, 100)
    ELSE IF RGt(race_distance_miles, RInt(13)) THEN Rat(105, 100)
    ELSE Rat(108, 100)

\* the scaling factor of the marathon prediction
MarathonFactor(race_distance_miles) ==
    IF RGe(race_distance_miles, RInt(20)) THEN Rat(102, 100)
    ELSE IF RGe(race_distance_miles, RInt(13)) THEN Rat(105, 100)
    ELSE Rat(108, 100)

MarathonPrediction(race_distance_miles, race_pace) ==
    RMul(RMul(race_pace, Rat(262, 10)), MarathonFactor(race_distance_miles))

\* Format02d without the zero padding
Format02d_NoPad(i) == ToString(i)

\* format(i, "02d")
Format02d(i) == IF 0 <= i /\ i < 10 THEN "0" \o ToString(i) ELSE ToString(i)

\* f"{int(p // 60)}:{int(p % 60):02d}"
PredictionTime(marathon_prediction) ==
    ToString(IntOf(FloorDiv(marathon_prediction, RInt(60))))
        \o ":" \o Format02d(IntOf(Mod(marathon_prediction, RInt(60))))

\* an optional argument is <<>> when it is None and <<v>> when it is v;
\* Python's truth value of it
Truthy(opt) == opt # <<>> /\ opt[1] # RInt(0)

\* the "improvement" entry; the text is kept as its two formatted numbers
Improvement(current_vdot, estimated_vdot) ==
    IF Truthy(current_vdot)
    THEN [text |-> "VDOT improved from {} to {}",
          from |-> current_vdot[1], to |-> Round(estimated_vdot, 1)]
    ELSE None

adjust_paces_from_race(race_distance_miles, race_time_minutes, current_vdot) ==
    IF race_distance_miles = RInt(0)
    THEN Raise("ZeroDivisionError")
    ELSE LET race_pace == RDiv(race_time_minutes, race_distance_miles)
             estimated_vdot == EstimatedVdot(race_pace)
             paces == TrainingPaces(race_pace)
             marathon_prediction ==
                 MarathonPrediction(race_distance_miles, race_pace)
         IN  Return([status |-> "success",
                     vdot |-> Round(estimated_vdot, 1),
                     race_pace_per_mile |-> Round(race_pace, 2),
                     paces |-> [easy |-> Round(paces.easy, 2),
                                tempo |-> Round(paces.tempo, 2),
                                interval |-> Round(paces.interval, 2),
                                long_run |-> Round(paces.long_run, 2)],
                     marathon_prediction_minutes |-> Round(marathon_prediction, 1),
                     marathon_prediction_time |-> PredictionTime(marathon_prediction),
                     improvement |-> Improvement(current_vdot, estimated_vdot)])

(***************************************************************************)
(* calculate_weekly_mileage_progression                                    *)
(***************************************************************************)
\* MaxIncrease with the intermediate rate as the default
MaxIncrease_DefaultIntermediate(ability_level) ==
    CASE ability_level = "beginner" -> Rat(10, 100)
      [] ability_level = "advanced" -> Rat(15, 100)
      [] ability_level = "elite" -> Rat(18, 100)
      [] OTHER -> Rat(12, 100)

\* max_increase_rates.get(ability_level, 0.10)
MaxIncrease(ability_level) ==
    CASE ability_level = "beginner" -> Rat(10, 100)
      [] ability_level = "intermediate" -> Rat(12, 100)
      [] ability_level = "advanced" -> Rat(15, 100)
      [] ability_level = "elite" -> Rat(18, 100)
      [] OTHER -> Rat(10, 100)

\* NextMileage with the fourth week built like every other week
NextMileage_NoRecovery(week, current, target_mileage, max_increase) ==
    LET increase == RMin(RMul(current, max_increase),
                         RSub(target_mileage, current))
    IN  RMin(RAdd(current, increase), target_mileage)

\* NextMileage with the larger of the two steps taken in a build week
NextMileage_MaxStep(week, current, target_mileage, max_increase) ==
    IF week % 4 = 0
    THEN RMul(current, Rat(8, 10))
    ELSE LET increase == RMax(RMul(current, max_increase),
                              RSub(target_mileage, current))
         IN  RMin(RAdd(current, increase), target_mileage)

\* one iteration of the loop: the mileage carried into the next week
NextMileage(week, current, target_mileage, max_increase) ==
    IF week % 4 = 0
    THEN RMul(current, Rat(8, 10))
    ELSE LET increase == RMin(RMul(current, max_increase),
                              RSub(target_mileage, current))
         IN  RMin(RAdd(current, increase), target_mileage)

WeekType(week) == IF week % 4 = 0 THEN "recovery" ELSE "build"

\* WeeklyPlan with the loop ending one week early
RECURSIVE WeeklyPlan_EndsEarly(_, _, _, _, _)
WeeklyPlan_EndsEarly(week, weeks_available, current, target_mileage, max_increase) ==
    IF week >= weeks_available
    THEN <<>>
    ELSE LET next == NextMileage(week, current, target_mileage, max_increase)
         IN  <<[week |-> week, mileage |-> Round(next, 1), type |-> WeekType(week)]>>
                 \o WeeklyPlan_EndsEarly(week + 1, weeks_available, next,
                                         target_mileage, max_increase)

\* IsSafe with the target itself as the threshold
IsSafe_FullTarget(final_mileage, target_mileage) ==
    RGe(final_mileage, target_mileage)

\* IsSafe with a recovery week of the target counted as reaching it
IsSafe_RecoveryCounts(final_mileage, target_mileage) ==
    RGe(final_mileage, RMul(target_mileage, Rat(8, 10)))

\* is_safe: the final mileage is within 10% of the target
IsSafe(final_mileage, target_mileage) ==
    RGe(final_mileage, RMul(target_mileage, Rat(9, 10)))

\* the entries appended for week, week + 1, ..., weeks_available
RECURSIVE WeeklyPlan(_, _, _, _, _)
WeeklyPlan(week, weeks_available, current, target_mileage, max_increase) ==
    IF week > weeks_available
    THEN <<>>
    ELSE LET next == NextMileage(week, current, target_mileage, max_increase)
         IN  <<[week |-> week, mileage |-> Round(next, 1), type |-> WeekType(week)]>>
                 \o WeeklyPlan(week + 1, weeks_available, next,
                               target_mileage, max_increase)

calculate_weekly_mileage_progression(current_mileage, target_mileage, weeks_available, ability_level) ==
    LET max_increase == MaxIncrease(ability_level)
        weekly_plan == WeeklyPlan(1, weeks_available, current_mileage,
                                  target_mileage, max_increase)
    IN  IF weekly_plan = <<>>
        THEN Raise("IndexError")
        ELSE LET final_mileage == weekly_plan[Len(weekly_plan)].mileage
                 is_safe == IsSafe(final_mileage, target_mileage)
             IN  Return([status |-> "success",
                         weekly_plan |-> weekly_plan,
                         final_mileage |-> Round(final_mileage, 1),
                         target_mileage |-> target_mileage,
                         is_achievable |-> is_safe,
                         max_weekly_increase |-> RMul(max_increase, RInt(100)),
                         recommendation |->
                             IF is_safe THEN "Safe progression"
                             ELSE "Target too aggressive - need more weeks"])

(***************************************************************************)
(* get_corrective_exercises                                                *)
(***************************************************************************)
\* the injury types of the exercise library
InjuryTypes ==
    {"IT_band", "plantar_fasciitis", "achilles_tendonitis", "shin_splints",
     "runners_knee"}

\* the parsed exercise library: one protocol for each injury type
ExerciseLibrary ==
    [t \in InjuryTypes |->
        [injury_name |-> t,
         exercises |-> <<[name |-> "exercise", why |-> "rationale"]>>,
         training_modifications |-> <<"modification">>,
         return_to_running_criteria |-> <<"criterion">>]]

\* {"status": "success", **entry}
WithStatus(entry) ==
    [k \in {"status"} \cup DOMAIN entry |->
        IF k \in DOMAIN entry THEN entry[k] ELSE "success"]

\* get_corrective_exercises answering from the file only while it has not
\* been opened before
get_corrective_exercises_FirstOnly(injury_type, file) ==
    IF file = "missing" \/ library_opens > 0
    THEN Return([status |-> "error",
                 error_message |-> "Exercise library file not found"])
    ELSE IF file = "corrupt"
    THEN Return([status |-> "error",
                 error_message |-> "Error loading exercises: {}"])
    ELSE IF injury_type \in DOMAIN ExerciseLibrary
    THEN Return(WithStatus(ExerciseLibrary[injury_type]))
    ELSE Return([status |-> "error",
                 error_message |-> "Unknown injury type: " \o injury_type,
                 available_types |-> DOMAIN ExerciseLibrary])

\* get_corrective_exercises with the letter case of the key ignored
get_corrective_exercises_AnyCase(injury_type, file) ==
    LET key == CASE injury_type = "it_band" -> "IT_band"
                 [] injury_type = "Shin_Splints" -> "shin_splints"
                 [] OTHER -> injury_type
    IN  IF file = "missing"
        THEN Return([status |-> "error",
                     error_message |-> "Exercise library file not found"])
        ELSE IF file = "corrupt"
        THEN Return([status |-> "error",
                     error_message |-> "Error loading exercises: {}"])
        ELSE IF key \in DOMAIN ExerciseLibrary
        THEN Return(WithStatus(ExerciseLibrary[key]))
        ELSE Return([status |-> "error",
                     error_message |-> "Unknown injury type: " \o injury_type,
                     available_types |-> DOMAIN ExerciseLibrary])

\* file is the condition of data/exercise_library.json when it is opened
get_corrective_exercises(injury_type, file) ==
    IF file = "missing"
    THEN Return([status |-> "error",
                 error_message |-> "Exercise library file not found"])
    ELSE IF file = "corrupt"
    THEN Return([status |-> "error",
                 error_message |-> "Error loading exercises: {}"])
    ELSE IF injury_type \in DOMAIN ExerciseLibrary
    THEN Return(WithStatus(ExerciseLibrary[injury_type]))
    ELSE Return([status |-> "error",
                 error_message |-> "Unknown injury type: " \o injury_type,
                 available_types |-> DOMAIN ExerciseLibrary])

(***************************************************************************)
(* UserProfile and save_profile (src/sessions/profile_manager.py)          *)
(*                                                                         *)
(* An attribute that may be None is <<>> when it is None and <<v>> when it *)
(* is v.  A datetime is a record of its date; the time of day is 00:00:00, *)
(* as strptime with "%Y-%m-%d" gives it.  users.json holds                 *)
(* {"users": [...]}: json.dump and json.load take the strings, numbers,    *)
(* booleans and None of these dictionaries to themselves, so the file is   *)
(* modelled by its list of user dictionaries.                              *)
(***************************************************************************)
\* os.path.exists(filename) is false
NoFile == [exists |-> FALSE, users |-> <<>>]

\* the file written by json.dump({'users': users}, f, indent=2)
UsersFile(users) == [exists |-> TRUE, users |-> users]

\* UserProfile.__init__
UserProfile ==
    [name |-> <<>>, email |-> <<>>, age |-> <<>>, weight |-> <<>>,
     goal_distance |-> <<>>, ability_level |-> <<>>,
     current_weekly_mileage |-> <<>>, goal_race_date |-> <<>>,
     has_milestone |-> FALSE, milestone_date |-> <<>>,
     milestone_distance |-> <<>>]

\* datetime.isoformat of a date at midnight
IsoFormat(dt) ==
    ToString(dt.year) \o "-" \o Format02d(dt.month) \o "-" \o Format02d(dt.day)
        \o "T00:00:00"

\* d.isoformat() if d else None
IsoFormatOrNone(d) == IF d # <<>> THEN <<IsoFormat(d[1])>> ELSE <<>>

\* UserProfile.to_dict
to_dict(self) ==
    [name |-> self.name,
     email |-> self.email,
     age |-> self.age,
     weight |-> self.weight,
     goal_distance |-> self.goal_distance,
     ability_level |-> self.ability_level,
     current_weekly_mileage |-> self.current_weekly_mileage,
     goal_race_date |-> IsoFormatOrNone(self.goal_race_date),
     has_milestone |-> self.has_milestone,
     milestone_date |-> IsoFormatOrNone(self.milestone_date),
     milestone_distance |-> self.milestone_distance]

\* the users the file holds: data.get('users', []), [] without a file
LoadUsers(file) == IF file.exists THEN file.users ELSE <<>>

\* the index of the first user with the email, 0 if there is none
RECURSIVE FirstWithEmail(_, _, _)
FirstWithEmail(users, email, i) ==
    IF i > Len(users) THEN 0
    ELSE IF users[i].email = email THEN i
    ELSE FirstWithEmail(users, email, i + 1)

\* save_profile with an updated user moved to the end of the list
save_profile_MovesToEnd(profile, file) ==
    LET users == LoadUsers(file)
        profile_dict == to_dict(profile)
        i == FirstWithEmail(users, profile.email, 1)
    IN  IF i # 0
        THEN Append(SubSeq(users, 1, i - 1) \o SubSeq(users, i + 1, Len(users)),
                    profile_dict)
        ELSE Append(users, profile_dict)

\* save_profile: the list of users written to the file
save_profile(profile, file) ==
    LET users == LoadUsers(file)
        profile_dict == to_dict(profile)
        i == FirstWithEmail(users, profile.email, 1)
    IN  IF i # 0
        THEN [users EXCEPT ![i] = profile_dict]
        ELSE Append(users, profile_dict)

\* the value of each decimal digit
DigitOf == [c \in {ToString(d) : d \in 0 .. 9} |-> CHOOSE d \in 0 .. 9 : ToString(d) = c]

\* int() of a string of decimal digits
RECURSIVE ParseInt(_)
ParseInt(s) ==
    IF Len(s) = 0 THEN 0
    ELSE 10 * ParseInt(SubSeq(s, 1, Len(s) - 1))
             + DigitOf[SubSeq(s, Len(s), Len(s))]

\* datetime.fromisoformat of "YYYY-MM-DDT00:00:00"
FromIsoFormat(s) ==
    [year |-> ParseInt(SubSeq(s, 1, 4)), month |-> ParseInt(SubSeq(s, 6, 7)),
     day |-> ParseInt(SubSeq(s, 9, 10))]

\* the profile load_profile builds from a user dictionary whose goal race
\* date is a string; the milestone date is parsed only when it is truthy
ProfileOf(user_data) ==
    [name |-> user_data.name,
     email |-> user_data.email,
     age |-> user_data.age,
     weight |-> user_data.weight,
     goal_distance |-> user_data.goal_distance,
     ability_level |-> user_data.ability_level,
     current_weekly_mileage |-> user_data.current_weekly_mileage,
     goal_race_date |-> <<FromIsoFormat(user_data.goal_race_date[1])>>,
     has_milestone |-> user_data.has_milestone,
     milestone_date |->
         IF user_data.milestone_date # <<>>
         THEN <<FromIsoFormat(user_data.milestone_date[1])>> ELSE <<>>,
     milestone_distance |-> user_data.milestone_distance]

\* load_profile: None without a file or without a user of that email;
\* datetime.fromisoformat(None) raises TypeError
load_profile(email, file) ==
    LET users == LoadUsers(file)
        i == FirstWithEmail(users, email, 1)
    IN  IF ~file.exists \/ i = 0 THEN Return(None)
        ELSE IF users[i].goal_race_date = <<>> THEN Raise("TypeError")
        ELSE Return(ProfileOf(users[i]))

\* str(x) of an optional string: None prints as "None"
Str(opt) == IF opt = <<>> THEN "None" ELSE opt[1]

\* list_all_users with the address before the name
list_all_users_EmailFirst(file) ==
    IF ~file.exists THEN <<>>
    ELSE [i \in DOMAIN file.users |->
             Str(file.users[i].email) \o " (" \o Str(file.users[i].name) \o ")"]

\* list_all_users: "Name (email)" for each user of the file, in its order
list_all_users(file) ==
    IF ~file.exists THEN <<>>
    ELSE [i \in DOMAIN file.users |->
             Str(file.users[i].name) \o " (" \o Str(file.users[i].email) \o ")"]

(***************************************************************************)
(* The lines typed at the prompts (src/sessions/setup_profile.py,          *)
(* src/main.py): str.strip, str.lower, the `in` test, int, float and       *)
(* datetime.strptime with "%Y-%m-%d", on strings of letters, digits,       *)
(* spaces and punctuation.  int, float and strptime give <<>> where Python *)
(* raises ValueError and <<v>> where it returns v.                         *)
(***************************************************************************)
CharAt(s, i) == SubSeq(s, i, i)

\* c in s, for a character c
Contains(c, s) == \E i \in 1 .. Len(s) : CharAt(s, i) = c

\* s.strip(), for a string whose white space is spaces
RECURSIVE Strip(_)
Strip(s) ==
    IF Len(s) = 0 THEN s
    ELSE IF CharAt(s, 1) = " " THEN Strip(SubSeq(s, 2, Len(s)))
    ELSE IF CharAt(s, Len(s)) = " " THEN Strip(SubSeq(s, 1, Len(s) - 1))
    ELSE s

UpperCase == "ABCDEFGHIJKLMNOPQRSTUVWXYZ"
LowerCase == "abcdefghijklmnopqrstuvwxyz"

\* the lower-case letter of each upper-case letter
LowerOf == [c \in {CharAt(UpperCase, i) : i \in 1 .. 26} |-> CharAt(LowerCase, CHOOSE i \in 1 .. 26 : CharAt(UpperCase, i) = c)]

\* s.lower()
RECURSIVE Lower(_)
Lower(s) ==
    IF Len(s) = 0 THEN s
    ELSE LET c == CharAt(s, Len(s))
         IN  Lower(SubSeq(s, 1, Len(s) - 1))
                 \o (IF c \in DOMAIN LowerOf THEN LowerOf[c] ELSE c)

IsDigits(s) ==
    /\ Len(s) > 0
    /\ \A i \in 1 .. Len(s) : CharAt(s, i) \in DOMAIN DigitOf

\* int(s): an optional sign, then digits
IntValue(s) ==
    IF IsDigits(s) THEN <<ParseInt(s)>>
    ELSE IF Len(s) > 1 /\ CharAt(s, 1) = "-" /\ IsDigits(SubSeq(s, 2, Len(s)))
    THEN <<-ParseInt(SubSeq(s, 2, Len(s)))>>
    ELSE <<>>

\* the position of the first c in s, 0 if there is none
RECURSIVE Find(_, _, _)
Find(c, s, i) ==
    IF i > Len(s) THEN 0 ELSE IF CharAt(s, i) = c THEN i ELSE Find(c, s, i + 1)

RECURSIVE Pow(_, _)
Pow(b, e) == IF e = 0 THEN 1 ELSE b * Pow(b, e - 1)

\* float(s): an optional sign, digits, and optionally a point and digits
FloatValue(s) ==
    LET neg == Len(s) > 0 /\ CharAt(s, 1) = "-"
        u == IF neg THEN SubSeq(s, 2, Len(s)) ELSE s
        p == Find(".", u, 1)
        whole == IF p = 0 THEN u ELSE SubSeq(u, 1, p - 1)
        frac == IF p = 0 THEN "" ELSE SubSeq(u, p + 1, Len(u))
        sign == IF neg THEN -1 ELSE 1
    IN  IF p = 0
        THEN IF IsDigits(u) THEN <<RInt(sign * ParseInt(u))>> ELSE <<>>
        ELSE IF /\ IsDigits(whole) \/ whole = ""
                /\ IsDigits(frac) \/ frac = ""
                /\ whole \o frac # ""
        THEN <<Rat(sign * (ParseInt(whole) * Pow(10, Len(frac)) + ParseInt(frac)),
                   Pow(10, Len(frac)))>>
        ELSE <<>>

DaysInMonth(year, month) ==
    IF month = 2
    THEN IF year % 4 = 0 /\ (year % 100 # 0 \/ year % 400 = 0) THEN 29 ELSE 28
    ELSE IF month \in {4, 6, 9, 11} THEN 30 ELSE 31

\* datetime.strptime(s, "%Y-%m-%d"): four digits, then one or two for the
\* month and for the day, of a date that exists; the time is midnight
StrpTime(s) ==
    LET rest == SubSeq(s, 6, Len(s))
        p == Find("-", rest, 1)
        y == SubSeq(s, 1, 4)
        m == SubSeq(rest, 1, p - 1)
        d == SubSeq(rest, p + 1, Len(rest))
    IN  IF /\ Len(s) >= 8
           /\ IsDigits(y)
           /\ CharAt(s, 5) = "-"
           /\ p # 0
           /\ IsDigits(m) /\ Len(m) <= 2
           /\ IsDigits(d) /\ Len(d) <= 2
           /\ ParseInt(y) >= 1
           /\ ParseInt(m) \in 1 .. 12
           /\ ParseInt(d) \in 1 .. DaysInMonth(ParseInt(y), ParseInt(m))
        THEN <<[year |-> ParseInt(y), month |-> ParseInt(m), day |-> ParseInt(d)]>>
        ELSE <<>>

\* a < b, for two datetimes at midnight
DateLt(a, b) ==
    \/ a.year < b.year
    \/ a.year = b.year /\ a.month < b.month
    \/ a.year = b.year /\ a.month = b.month /\ a.day < b.day

\* the day of datetime.now(); the time of day is after midnight
Today == [year |-> 2026, month |-> 11, day |-> 1]

\* d < datetime.now(), for a datetime d at midnight
BeforeNow(d) == ~DateLt(Today, d)

\* UserProfile.is_complete
is_complete(self) ==
    /\ self.name # <<>>
    /\ self.email # <<>>
    /\ self.age # <<>>
    /\ self.goal_distance # <<>>
    /\ self.ability_level # <<>>
    /\ self.current_weekly_mileage # <<>>
    /\ self.goal_race_date # <<>>

\* the choices of the goal distance and ability level menus
Distances == [c \in {"1", "2", "3", "4", "5"} |-> CASE c = "1" -> "5K" [] c = "2" -> "10K" [] c = "3" -> "10 Mile" [] c = "4" -> "Half Marathon" [] c = "5" -> "Marathon"]
Abilities == [c \in {"1", "2", "3", "4"} |-> CASE c = "1" -> "beginner" [] c = "2" -> "intermediate" [] c = "3" -> "advanced" [] c = "4" -> "elite"]

(***************************************************************************)
(* The arguments the tools are called with.                                *)
(***************************************************************************)
MaxMiles == 13
MaxWindows == 2
MaxTimeSteps == 13
MaxWeeks == 8
MaxOpens == 2

\* daily mileage; -1 stands for a malformed (negative) entry
Miles == -1 .. MaxMiles

\* n days of v miles each
Days(n, v) == [i \in 1 .. n |-> v]

\* a week of unequal days, 38 miles in all
UnevenWeek == <<6, 5, 6, 5, 6, 5, 5>>

\* the last week: w miles a day, or the uneven week; a malformed series
\* holds more than one week
Last7Days == {Days(7 * k, w) : k \in 1 .. MaxWindows, w \in Miles} \cup {UnevenWeek}

\* the last four weeks: three weeks of u miles a day, then a last week; a
\* malformed series holds more than one last week
Last28Days == {Days(21, u) \o week : u \in Miles, week \in Last7Days}

\* race distances in miles, around the 13 and 20 mile boundaries
RaceDistances ==
    {Rat(d, 10) : d \in {-50, 0, 50, 100, 129, 130, 180, 199, 200}}

\* race times in minutes
RaceTimes == {RInt(12 * k) : k \in 0 .. MaxTimeSteps}

\* current_vdot: not given, 0, 40
PriorVdots == {<<>>, <<RInt(0)>>, <<RInt(40)>>}

\* weekly mileage; -5 stands for a malformed (negative) mileage
CurrentMileages == {RInt(-5), RInt(0), RInt(25), RInt(60)}

\* target mileages, two of them with two decimals: 30.26 is reported as
\* 30.3, and 0.8 x 30.07 = 24.056 is reported as 24.1
TargetMileages == {RInt(0), RInt(30), Rat(3007, 100), Rat(3026, 100), RInt(35)}

\* the weeks to plan; 0 and -1 are malformed, and a malformed mileage is
\* planned for one week at most
WeeksAvailable == -1 .. MaxWeeks
WeeksFor(current_mileage) ==
    IF RLt(current_mileage, RInt(0)) THEN -1 .. 1 ELSE WeeksAvailable
AbilityLevels == {"beginner", "intermediate", "advanced", "elite", "expert"}

\* the injury types asked for: the five of the library, two of them in
\* another letter case, and one that is in no library
InjuryTypeArgs ==
    InjuryTypes \cup {"it_band", "Shin_Splints", "nonexistent_injury"}

FileStates == {"ok", "missing", "corrupt"}

\* the profiles saved: two names, two emails or none (setup_profile leaves
\* the email None after an invalid entry), a goal race date or none
Names == {"Ana", "Bo"}
Emails == {<<>>, <<"ana@example.com">>, <<"bo@example.com">>}
GoalRaceDates == {<<>>, <<[year |-> 2027, month |-> 4, day |-> 18]>>}
Profiles ==
    {[UserProfile EXCEPT !.name = <<name>>, !.email = email, !.age = <<30>>,
                         !.goal_distance = <<"Marathon">>,
                         !.ability_level = <<"intermediate">>,
                         !.current_weekly_mileage = <<RInt(25)>>,
                         !.goal_race_date = goal_race_date] :
        name \in Names, email \in Emails, goal_race_date \in GoalRaceDates}

\* the lines typed at the prompts of setup_profile: at each prompt lines
\* that are accepted, and lines that are refused or skipped
NameInputs == {"Ana", " Bo "}
EmailInputs == {"ana@example.com", "Ana@Example.com", "ana.example.com"}
AgeInputs == {"9", "30", "101", "thirty"}
WeightInputs == {"", "150"}
GoalDistanceInputs == {"5", "6"}
AbilityInputs == {"2", "5"}
MileageInputs == {"25", "-1", "a lot"}
DateInputs == {"2027-04-18", "2027-02-07", "2026-01-15", "soon"}
MilestoneDistanceInputs == {"13.1", "0", "far"}
YesNoInputs == {"yes", "Y", "no"}
ConfirmInputs == {"yes", " Y", "edit", "E", "no", "maybe"}
EditChoices == {"0", "1", "2", "3", "4", "5", "6", "7", "8", "9", "x"}

\* the lines typed at the prompts of main.py: the login email, the choices
\* of the main menu, the lines of the chat, and what the quick actions ask
LoginInputs == {"Ana@Example.com ", "bo@example.com"}
MenuChoices == {"1", "2", "3", "4", "5", "6", "7", "8"}
ChatInputs == {"", "exit", "Quit", "menu", "How far should I run today?"}
QuickInputs == {"5,0,6,0,7,0,8", "my knee hurts"}

\* how a run_debug of an agent ends: with a response, or with an exception
AgentOutcomes == {"reply", "error"}

\* the profile of a user registered in an earlier session
StoredProfile ==
    [UserProfile EXCEPT !.name = <<"Ana">>, !.email = <<"ana@example.com">>,
                        !.age = <<30>>, !.goal_distance = <<"Marathon">>,
                        !.ability_level = <<"intermediate">>,
                        !.current_weekly_mileage = <<RInt(25)>>,
                        !.goal_race_date = <<[year |-> 2027, month |-> 4, day |-> 18]>>]

\* the profile updates from the main menu that are followed
MaxUpdates == 1

(***************************************************************************)
(* The state machine.  The tools are synchronous: a call runs to its       *)
(* return or to its exception in one step, and the caller takes the next   *)
(* step once it has dropped the outcome of the previous one.               *)
(***************************************************************************)
Init ==
    /\ fn = "none"
    /\ args = <<>>
    /\ out = None
    /\ library_file \in FileStates
    /\ library_opens = 0
    /\ kept = None
    /\ users_file = NoFile
    /\ pc = "idle"
    /\ typed = <<>>
    /\ draft = UserProfile
    /\ login = <<>>
    /\ caller = "none"
    /\ agent = "none"
    /\ updates = 0

CalculateAcwr ==
    /\ fn = "none"
    /\ \E last_7_days \in Last7Days, last_28_days \in Last28Days :
        /\ fn' = "calculate_acwr"
        /\ args' = [last_7_days |-> last_7_days, last_28_days |-> last_28_days]
        /\ out' = calculate_acwr(last_7_days, last_28_days)
    /\ UNCHANGED <<library_file, library_opens, kept, users_file>>
    /\ UNCHANGED session_vars

AdjustPacesFromRace ==
    /\ fn = "none"
    /\ \E race_distance_miles \in RaceDistances, race_time_minutes \in RaceTimes,
          current_vdot \in PriorVdots :
        /\ fn' = "adjust_paces_from_race"
        /\ args' = [race_distance_miles |-> race_distance_miles,
                    race_time_minutes |-> race_time_minutes,
                    current_vdot |-> current_vdot]
        /\ out' = adjust_paces_from_race(race_distance_miles, race_time_minutes,
                                         current_vdot)
    /\ UNCHANGED <<library_file, library_opens, kept, users_file>>
    /\ UNCHANGED session_vars

CalculateWeeklyMileageProgression ==
    /\ fn = "none"
    /\ \E current_mileage \in CurrentMileages, target_mileage \in TargetMileages,
          ability_level \in AbilityLevels :
       \E weeks_available \in WeeksFor(current_mileage) :
        /\ fn' = "calculate_weekly_mileage_progression"
        /\ args' = [current_mileage |-> current_mileage,
                    target_mileage |-> target_mileage,
                    weeks_available |-> weeks_available,
                    ability_level |-> ability_level]
        /\ out' = calculate_weekly_mileage_progression(
                      current_mileage, target_mileage, weeks_available,
                      ability_level)
    /\ UNCHANGED <<library_file, library_opens, kept, users_file>>
    /\ UNCHANGED session_vars

\* every call opens the library file anew
GetCorrectiveExercises ==
    /\ fn = "none"
    /\ library_opens < MaxOpens
    /\ \E injury_type \in InjuryTypeArgs :
        /\ fn' = "get_corrective_exercises"
        /\ args' = [injury_type |-> injury_type]
        /\ out' = get_corrective_exercises(injury_type, library_file)
    /\ library_opens' = library_opens + 1
    /\ UNCHANGED <<library_file, kept, users_file>>
    /\ UNCHANGED session_vars

\* save_profile(profile): the file is written with the new list of users
SaveProfile ==
    /\ fn = "none"
    /\ \E profile \in Profiles :
        /\ fn' = "save_profile"
        /\ args' = [profile |-> profile]
        /\ out' = Return(None)
        /\ users_file' = UsersFile(save_profile(profile, users_file))
    /\ UNCHANGED <<library_file, library_opens, kept>>
    /\ UNCHANGED session_vars

\* load_profile(email): the file is read, not written
LoadProfile ==
    /\ fn = "none"
    /\ \E email \in Emails :
        /\ fn' = "load_profile"
        /\ args' = [email |-> email]
        /\ out' = load_profile(email, users_file)
    /\ UNCHANGED <<library_file, library_opens, kept, users_file>>
    /\ UNCHANGED session_vars

\* list_all_users(): the file is read, not written
ListAllUsers ==
    /\ fn = "none"
    /\ fn' = "list_all_users"
    /\ args' = <<>>
    /\ out' = Return(list_all_users(users_file))
    /\ UNCHANGED <<library_file, library_opens, kept, users_file>>
    /\ UNCHANGED session_vars

(***************************************************************************)
(* setup_profile: one action for each prompt.  A prompt in a `while True`  *)
(* loop is asked again (pc stays) when the line is refused; an assignment  *)
(* made before the line is refused stays made.                             *)
(***************************************************************************)
\* what a prompt of setup_profile leaves alone
setup_rest == <<fn, args, out, library_file, library_opens, kept, users_file, login, caller, agent, updates>>

\* setup_profile is entered: profile = UserProfile()
EnterSetup == [pc |-> "name", draft |-> UserProfile]

AskName ==
    /\ pc = "name"
    /\ \E line \in NameInputs :
        /\ typed' = <<line>>
        /\ draft' = [draft EXCEPT !.name = <<Strip(line)>>]
    /\ pc' = "email"
    /\ UNCHANGED setup_rest

\* the loop is left after the first line, valid or not
AskEmail ==
    /\ pc = "email"
    /\ \E line \in EmailInputs :
        LET email == Strip(line)
        IN  /\ typed' = <<line>>
            /\ draft' = IF Contains("@", email) /\ Contains(".", email)
                        THEN [draft EXCEPT !.email = <<email>>] ELSE draft
    /\ pc' = "age"
    /\ UNCHANGED setup_rest

AskAge ==
    /\ pc = "age"
    /\ \E line \in AgeInputs :
        LET age == IntValue(Strip(line))
        IN  /\ typed' = <<line>>
            /\ draft' = IF age # <<>> THEN [draft EXCEPT !.age = age] ELSE draft
            /\ pc' = IF age = <<>> \/ age[1] < 10 \/ age[1] > 100
                     THEN "age" ELSE "weight"
    /\ UNCHANGED setup_rest

AskWeight ==
    /\ pc = "weight"
    /\ \E line \in WeightInputs :
        LET weight == FloatValue(Strip(line))
        IN  /\ typed' = <<line>>
            /\ draft' = IF Strip(line) # "" /\ weight # <<>>
                        THEN [draft EXCEPT !.weight = weight] ELSE draft
    /\ pc' = "goal_distance"
    /\ UNCHANGED setup_rest

AskGoalDistance ==
    /\ pc = "goal_distance"
    /\ \E line \in GoalDistanceInputs :
        LET choice == Strip(line)
        IN  /\ typed' = <<line>>
            /\ IF choice \in DOMAIN Distances
               THEN /\ draft' = [draft EXCEPT !.goal_distance = <<Distances[choice]>>]
                    /\ pc' = "ability_level"
               ELSE UNCHANGED <<draft, pc>>
    /\ UNCHANGED setup_rest

AskAbility ==
    /\ pc = "ability_level"
    /\ \E line \in AbilityInputs :
        LET choice == Strip(line)
        IN  /\ typed' = <<line>>
            /\ IF choice \in DOMAIN Abilities
               THEN /\ draft' = [draft EXCEPT !.ability_level = <<Abilities[choice]>>]
                    /\ pc' = "mileage"
               ELSE UNCHANGED <<draft, pc>>
    /\ UNCHANGED setup_rest

AskMileage ==
    /\ pc = "mileage"
    /\ \E line \in MileageInputs :
        LET mileage == FloatValue(Strip(line))
        IN  /\ typed' = <<line>>
            /\ draft' = IF mileage # <<>>
                        THEN [draft EXCEPT !.current_weekly_mileage = mileage]
                        ELSE draft
            /\ pc' = IF mileage = <<>> \/ RLt(mileage[1], RInt(0))
                     THEN "mileage" ELSE "goal_date"
    /\ UNCHANGED setup_rest

AskGoalDate ==
    /\ pc = "goal_date"
    /\ \E line \in DateInputs :
        LET date == StrpTime(Strip(line))
        IN  /\ typed' = <<line>>
            /\ draft' = IF date # <<>>
                        THEN [draft EXCEPT !.goal_race_date = date] ELSE draft
            /\ pc' = IF date = <<>> \/ BeforeNow(date[1])
                     THEN "goal_date" ELSE "milestone"
    /\ UNCHANGED setup_rest

AskMilestone ==
    /\ pc = "milestone"
    /\ \E line \in YesNoInputs :
        /\ typed' = <<line>>
        /\ IF Lower(Strip(line)) \in {"yes", "y"}
           THEN /\ draft' = [draft EXCEPT !.has_milestone = TRUE]
                /\ pc' = "milestone_date"
           ELSE /\ draft' = draft
                /\ pc' = "confirm"
    /\ UNCHANGED setup_rest

AskMilestoneDate ==
    /\ pc = "milestone_date"
    /\ \E line \in DateInputs :
        LET date == StrpTime(Strip(line))
        IN  /\ typed' = <<line>>
            /\ draft' = IF date # <<>>
                        THEN [draft EXCEPT !.milestone_date = date] ELSE draft
            /\ pc' = IF \/ date = <<>>
                        \/ ~DateLt(date[1], draft.goal_race_date[1])
                        \/ BeforeNow(date[1])
                     THEN "milestone_date" ELSE "milestone_distance"
    /\ UNCHANGED setup_rest

AskMilestoneDistance ==
    /\ pc = "milestone_distance"
    /\ \E line \in MilestoneDistanceInputs :
        LET dist == FloatValue(Strip(line))
        IN  /\ typed' = <<line>>
            /\ draft' = IF dist # <<>>
                        THEN [draft EXCEPT !.milestone_distance = dist] ELSE draft
            /\ pc' = IF dist = <<>> \/ RLe(dist[1], RInt(0))
                     THEN "milestone_distance" ELSE "confirm"
    /\ UNCHANGED setup_rest

\* "Is this information correct?": yes saves the profile and returns it, no
\* returns what a new setup_profile() returns, edit shows the edit menu
Confirm ==
    /\ pc = "confirm"
    /\ \E line \in ConfirmInputs :
        LET confirm == Lower(Strip(line))
        IN  /\ typed' = <<line>>
            /\ IF confirm \in {"yes", "y"}
               THEN /\ users_file' = UsersFile(save_profile(draft, users_file))
                    /\ fn' = "setup_profile"
                    /\ args' = <<>>
                    /\ out' = Return(draft)
                    /\ pc' = "returned"
                    /\ draft' = draft
               ELSE /\ UNCHANGED <<users_file, fn, args, out>>
                    /\ pc' = IF confirm \in {"edit", "e"} THEN "edit"
                             ELSE IF confirm \in {"no", "n"} THEN EnterSetup.pc
                             ELSE "confirm"
                    /\ draft' = IF confirm \in {"no", "n"}
                                THEN EnterSetup.draft ELSE draft
    /\ UNCHANGED <<library_file, library_opens, kept, login, caller, agent, updates>>

\* "Enter number (0-9)": 9 starts over, 0 and any other line go back to the
\* question above
EditChoice ==
    /\ pc = "edit"
    /\ \E line \in EditChoices :
        LET edit_choice == Strip(line)
        IN  /\ typed' = <<line>>
            /\ pc' = CASE edit_choice = "1" -> "edit_name"
                       [] edit_choice = "2" -> "edit_age"
                       [] edit_choice = "3" -> "edit_weight"
                       [] edit_choice = "4" -> "edit_goal_distance"
                       [] edit_choice = "5" -> "edit_ability_level"
                       [] edit_choice = "6" -> "edit_mileage"
                       [] edit_choice = "7" -> "edit_goal_date"
                       [] edit_choice = "8" -> "edit_milestone"
                       [] edit_choice = "9" -> EnterSetup.pc
                       [] OTHER -> "confirm"
            /\ draft' = IF edit_choice = "9" THEN EnterSetup.draft ELSE draft
    /\ UNCHANGED setup_rest

EditName ==
    /\ pc = "edit_name"
    /\ \E line \in NameInputs :
        /\ typed' = <<line>>
        /\ draft' = [draft EXCEPT !.name = <<Strip(line)>>]
    /\ pc' = "confirm"
    /\ UNCHANGED setup_rest

\* any number is taken
EditAge ==
    /\ pc = "edit_age"
    /\ \E line \in AgeInputs :
        LET age == IntValue(Strip(line))
        IN  /\ typed' = <<line>>
            /\ draft' = IF age # <<>> THEN [draft EXCEPT !.age = age] ELSE draft
            /\ pc' = IF age = <<>> THEN "edit_age" ELSE "confirm"
    /\ UNCHANGED setup_rest

\* an empty line unsets the weight
EditWeight ==
    /\ pc = "edit_weight"
    /\ \E line \in WeightInputs :
        LET weight == FloatValue(Strip(line))
        IN  /\ typed' = <<line>>
            /\ draft' = IF Strip(line) = "" THEN [draft EXCEPT !.weight = <<>>]
                        ELSE IF weight # <<>> THEN [draft EXCEPT !.weight = weight]
                        ELSE draft
    /\ pc' = "confirm"
    /\ UNCHANGED setup_rest

EditGoalDistance ==
    /\ pc = "edit_goal_distance"
    /\ \E line \in GoalDistanceInputs :
        LET choice == Strip(line)
        IN  /\ typed' = <<line>>
            /\ draft' = IF choice \in DOMAIN Distances
                        THEN [draft EXCEPT !.goal_distance = <<Distances[choice]>>]
                        ELSE draft
    /\ pc' = "confirm"
    /\ UNCHANGED setup_rest

EditAbility ==
    /\ pc = "edit_ability_level"
    /\ \E line \in AbilityInputs :
        LET choice == Strip(line)
        IN  /\ typed' = <<line>>
            /\ draft' = IF choice \in DOMAIN Abilities
                        THEN [draft EXCEPT !.ability_level = <<Abilities[choice]>>]
                        ELSE draft
    /\ pc' = "confirm"
    /\ UNCHANGED setup_rest

\* a negative mileage is refused before it is assigned
EditMileage ==
    /\ pc = "edit_mileage"
    /\ \E line \in MileageInputs :
        LET mileage == FloatValue(Strip(line))
        IN  /\ typed' = <<line>>
            /\ IF mileage # <<>> /\ RGe(mileage[1], RInt(0))
               THEN /\ draft' = [draft EXCEPT !.current_weekly_mileage = mileage]
                    /\ pc' = "confirm"
               ELSE UNCHANGED <<draft, pc>>
    /\ UNCHANGED setup_rest

\* any date is taken
EditGoalDate ==
    /\ pc = "edit_goal_date"
    /\ \E line \in DateInputs :
        LET date == StrpTime(Strip(line))
        IN  /\ typed' = <<line>>
            /\ IF date # <<>>
               THEN /\ draft' = [draft EXCEPT !.goal_race_date = date]
                    /\ pc' = "confirm"
               ELSE UNCHANGED <<draft, pc>>
    /\ UNCHANGED setup_rest

EditMilestone ==
    /\ pc = "edit_milestone"
    /\ \E line \in YesNoInputs :
        /\ typed' = <<line>>
        /\ IF Lower(Strip(line)) \in {"yes", "y"}
           THEN /\ draft' = [draft EXCEPT !.has_milestone = TRUE]
                /\ pc' = "edit_milestone_date"
           ELSE /\ draft' = [draft EXCEPT !.has_milestone = FALSE,
                                          !.milestone_date = <<>>,
                                          !.milestone_distance = <<>>]
                /\ pc' = "confirm"
    /\ UNCHANGED setup_rest

\* any date is taken
EditMilestoneDate ==
    /\ pc = "edit_milestone_date"
    /\ \E line \in DateInputs :
        LET date == StrpTime(Strip(line))
        IN  /\ typed' = <<line>>
            /\ IF date # <<>>
               THEN /\ draft' = [draft EXCEPT !.milestone_date = date]
                    /\ pc' = "edit_milestone_distance"
               ELSE UNCHANGED <<draft, pc>>
    /\ UNCHANGED setup_rest

\* any number is taken
EditMilestoneDistance ==
    /\ pc = "edit_milestone_distance"
    /\ \E line \in MilestoneDistanceInputs :
        LET dist == FloatValue(Strip(line))
        IN  /\ typed' = <<line>>
            /\ IF dist # <<>>
               THEN /\ draft' = [draft EXCEPT !.milestone_distance = dist]
                    /\ pc' = "confirm"
               ELSE UNCHANGED <<draft, pc>>
    /\ UNCHANGED setup_rest

\* the prompts of setup_profile
SetupStep ==
    \/ AskName \/ AskEmail \/ AskAge \/ AskWeight \/ AskGoalDistance
    \/ AskAbility \/ AskMileage \/ AskGoalDate \/ AskMilestone
    \/ AskMilestoneDate \/ AskMilestoneDistance \/ Confirm \/ EditChoice
    \/ EditName \/ EditAge \/ EditWeight \/ EditGoalDistance \/ EditAbility
    \/ EditMileage \/ EditGoalDate \/ EditMilestone \/ EditMilestoneDate
    \/ EditMilestoneDistance

(***************************************************************************)
(* main.py: get_user_profile, the main menu and the chat loop.             *)
(***************************************************************************)
\* get_user_profile up to its first branch: the users are listed, the email
\* is read and lower-cased, and the profile is loaded; an exception of
\* load_profile is not caught
GetUserProfile ==
    /\ pc = "login"
    /\ \E line \in LoginInputs :
        LET email == Lower(Strip(line))
            existing_users == list_all_users(users_file)
            loaded == load_profile(<<email>>, users_file)
        IN  /\ typed' = <<line>>
            /\ login' = <<email>>
            /\ args' = [email |-> <<email>>]
            /\ out' = loaded
            /\ IF loaded.kind = "raise"
               THEN /\ fn' = "get_user_profile"
                    /\ pc' = "crashed"
                    /\ UNCHANGED <<draft, caller>>
               ELSE IF loaded.value # None
               THEN /\ fn' = "load_profile"
                    /\ pc' = "update"
                    /\ UNCHANGED <<draft, caller>>
               ELSE /\ fn' = "load_profile"
                    /\ pc' = EnterSetup.pc
                    /\ draft' = EnterSetup.draft
                    /\ caller' = "get_user_profile"
    /\ UNCHANGED <<library_file, library_opens, kept, users_file, agent, updates>>

\* "Update your profile?": yes runs setup_profile, any other line returns
\* the loaded profile
AskUpdate ==
    /\ pc = "update"
    /\ \E line \in YesNoInputs :
        /\ typed' = <<line>>
        /\ IF Lower(Strip(line)) \in {"yes", "y"}
           THEN /\ pc' = EnterSetup.pc
                /\ draft' = EnterSetup.draft
                /\ caller' = "get_user_profile"
                /\ UNCHANGED <<fn, args, out>>
           ELSE /\ pc' = "main_menu"
                /\ fn' = "get_user_profile"
                /\ args' = <<>>
                /\ out' = Return(out.value)
                /\ UNCHANGED <<draft, caller>>
    /\ UNCHANGED <<library_file, library_opens, kept, users_file, login, agent, updates>>

\* setup_profile has returned to get_user_profile: profile.email = email,
\* and the profile is returned to main
SetupReturnsToLogin ==
    /\ pc = "returned"
    /\ caller = "get_user_profile"
    /\ fn' = "get_user_profile"
    /\ args' = <<>>
    /\ out' = Return([out.value EXCEPT !.email = login])
    /\ pc' = "main_menu"
    /\ UNCHANGED <<library_file, library_opens, kept, users_file, typed, draft, login, caller, agent, updates>>

\* "Enter choice (1-7)": 1 enters the chat, 2 and 3 ask the planning agent,
\* 4 and 5 read a line for the injury agent, 6 runs setup_profile, 7 leaves
\* the loop, any other line shows the menu again
MainMenu ==
    /\ pc = "main_menu"
    /\ \E line \in MenuChoices :
        LET choice == Strip(line)
        IN  /\ typed' = <<line>>
            /\ choice = "6" => updates < MaxUpdates
            /\ pc' = CASE choice = "1" -> "chat"
                       [] choice \in {"2", "3"} -> "quick_agent"
                       [] choice \in {"4", "5"} -> "quick_input"
                       [] choice = "6" -> EnterSetup.pc
                       [] choice = "7" -> "exited"
                       [] OTHER -> "main_menu"
            /\ draft' = IF choice = "6" THEN EnterSetup.draft ELSE draft
            /\ caller' = IF choice = "6" THEN "main" ELSE caller
            /\ updates' = IF choice = "6" THEN updates + 1 ELSE updates
    /\ UNCHANGED <<fn, args, out, library_file, library_opens, kept, users_file, login, agent>>

\* the line the quick actions 4 and 5 read before they ask the agent
QuickInput ==
    /\ pc = "quick_input"
    /\ \E line \in QuickInputs : typed' = <<line>>
    /\ pc' = "quick_agent"
    /\ UNCHANGED <<fn, args, out, library_file, library_opens, kept, users_file, draft, login, caller, agent, updates>>

\* run_debug of a quick action: its exception is not caught and ends main
QuickAgent ==
    /\ pc = "quick_agent"
    /\ \E outcome \in AgentOutcomes :
        /\ agent' = outcome
        /\ pc' = IF outcome = "error" THEN "crashed" ELSE "main_menu"
    /\ UNCHANGED <<fn, args, out, library_file, library_opens, kept, users_file, typed, draft, login, caller, updates>>

\* setup_profile has returned to main: profile.email = profile.email
SetupReturnsToMain ==
    /\ pc = "returned"
    /\ caller = "main"
    /\ pc' = "main_menu"
    /\ UNCHANGED <<fn, args, out, library_file, library_opens, kept, users_file, typed, draft, login, caller, agent, updates>>

\* chat_with_agent, one line of the loop: an empty line is skipped, exit and
\* quit break out of the loop and menu returns, after either of which
\* chat_with_agent has returned to the loop of the main menu; any other
\* line is sent to the agent
Chat ==
    /\ pc = "chat"
    /\ \E line \in ChatInputs :
        LET user_input == Strip(line)
        IN  /\ typed' = <<line>>
            /\ pc' = IF user_input = "" THEN "chat"
                     ELSE IF Lower(user_input) \in {"exit", "quit"} THEN "main_menu"
                     ELSE IF Lower(user_input) = "menu" THEN "main_menu"
                     ELSE "chat_agent"
    /\ UNCHANGED <<fn, args, out, library_file, library_opens, kept, users_file, draft, login, caller, agent, updates>>

\* run_debug in the chat: its exception is caught and the loop goes on
ChatAgent ==
    /\ pc = "chat_agent"
    /\ \E outcome \in AgentOutcomes : agent' = outcome
    /\ pc' = "chat"
    /\ UNCHANGED <<fn, args, out, library_file, library_opens, kept, users_file, typed, draft, login, caller, updates>>

\* the caller keeps the call and its outcome, to compare a later call with
Keep ==
    /\ fn # "none"
    /\ kept = None
    /\ kept' = [fn |-> fn, args |-> args, out |-> out]
    /\ fn' = "none"
    /\ args' = <<>>
    /\ out' = None
    /\ UNCHANGED <<library_file, library_opens, users_file>>
    /\ UNCHANGED session_vars

\* the kept call is made again: the same tool with the same arguments
CallAgain ==
    /\ fn = "none"
    /\ kept # None
    /\ kept.fn = "get_corrective_exercises" => library_opens < MaxOpens
    /\ fn' = kept.fn
    /\ args' = kept.args
    /\ out' = CASE kept.fn = "calculate_acwr" ->
                    calculate_acwr(kept.args.last_7_days, kept.args.last_28_days)
                [] kept.fn = "adjust_paces_from_race" ->
                    adjust_paces_from_race(kept.args.race_distance_miles,
                                           kept.args.race_time_minutes,
                                           kept.args.current_vdot)
                [] kept.fn = "calculate_weekly_mileage_progression" ->
                    calculate_weekly_mileage_progression(
                        kept.args.current_mileage, kept.args.target_mileage,
                        kept.args.weeks_available, kept.args.ability_level)
                [] kept.fn = "get_corrective_exercises" ->
                    get_corrective_exercises(kept.args.injury_type, library_file)
    /\ library_opens' = IF kept.fn = "get_corrective_exercises"
                        THEN library_opens + 1 ELSE library_opens
    /\ UNCHANGED <<library_file, kept, users_file>>
    /\ UNCHANGED session_vars

\* the caller is done with the outcome (result = ... is bound anew)
Discard ==
    /\ fn # "none"
    /\ fn' = "none"
    /\ args' = <<>>
    /\ out' = None
    /\ UNCHANGED <<library_file, library_opens, kept, users_file>>
    /\ UNCHANGED session_vars

Next ==
    \/ CalculateAcwr
    \/ AdjustPacesFromRace
    \/ CalculateWeeklyMileageProgression
    \/ GetCorrectiveExercises
    \/ Discard

Spec == Init /\ [][Next]_vars

\* the tools one at a time, with the exercise library in place
InitLibraryOk == Init /\ library_file = "ok"

NextAcwr == CalculateAcwr \/ Discard
SpecAcwr == InitLibraryOk /\ [][NextAcwr]_vars

NextPaces == AdjustPacesFromRace \/ Discard
SpecPaces == InitLibraryOk /\ [][NextPaces]_vars

NextProgression == CalculateWeeklyMileageProgression \/ Discard
SpecProgression == InitLibraryOk /\ [][NextProgression]_vars

\* a call of any tool, kept, and made again after calls of the exercise
\* tool, the one tool that reads anything but its arguments
NextRepeat ==
    \/ kept = None /\ CalculateAcwr
    \/ kept = None /\ AdjustPacesFromRace
    \/ kept = None /\ CalculateWeeklyMileageProgression
    \/ GetCorrectiveExercises
    \/ Keep
    \/ CallAgain
    \/ Discard
SpecRepeat == InitLibraryOk /\ [][NextRepeat]_vars

\* the store of user profiles, from no users file or an empty one
InitProfiles ==
    /\ fn = "none"
    /\ args = <<>>
    /\ out = None
    /\ library_file = "ok"
    /\ library_opens = 0
    /\ kept = None
    /\ users_file \in {NoFile, UsersFile(<<>>)}
    /\ pc = "idle"
    /\ typed = <<>>
    /\ draft = UserProfile
    /\ login = <<>>
    /\ caller = "none"
    /\ agent = "none"
    /\ updates = 0

NextProfiles == SaveProfile \/ LoadProfile \/ ListAllUsers \/ Discard
SpecProfiles == InitProfiles /\ [][NextProfiles]_vars

\* setup_profile run on its own, without a users file
InitSetup ==
    /\ fn = "none"
    /\ args = <<>>
    /\ out = None
    /\ library_file = "ok"
    /\ library_opens = 0
    /\ kept = None
    /\ users_file = NoFile
    /\ pc = EnterSetup.pc
    /\ typed = <<>>
    /\ draft = EnterSetup.draft
    /\ login = <<>>
    /\ caller = "none"
    /\ agent = "none"
    /\ updates = 0

SpecSetup == InitSetup /\ [][SetupStep]_vars

\* get_user_profile, without a users file or with the one a user registered
\* in an earlier session left
InitLogin ==
    /\ fn = "none"
    /\ args = <<>>
    /\ out = None
    /\ library_file = "ok"
    /\ library_opens = 0
    /\ kept = None
    /\ users_file \in {NoFile, UsersFile(<<to_dict(StoredProfile)>>)}
    /\ pc = "login"
    /\ typed = <<>>
    /\ draft = UserProfile
    /\ login = <<>>
    /\ caller = "none"
    /\ agent = "none"
    /\ updates = 0

NextLogin == GetUserProfile \/ AskUpdate \/ SetupStep \/ SetupReturnsToLogin
SpecLogin == InitLogin /\ [][NextLogin]_vars

\* the main menu and the chat, from where get_user_profile has returned the
\* profile of a registered user who did not update it
InitMain ==
    /\ fn = "get_user_profile"
    /\ args = <<>>
    /\ out = Return(StoredProfile)
    /\ library_file = "ok"
    /\ library_opens = 0
    /\ kept = None
    /\ users_file = UsersFile(<<to_dict(StoredProfile)>>)
    /\ pc = "main_menu"
    /\ typed = <<"no">>
    /\ draft = UserProfile
    /\ login = StoredProfile.email
    /\ caller = "none"
    /\ agent = "none"
    /\ updates = 0

NextMain == MainMenu \/ QuickInput \/ QuickAgent \/ Chat \/ ChatAgent \/ SetupStep \/ SetupReturnsToMain
SpecMain == InitMain /\ [][NextMain]_vars

\* the exercise tool, with the library file in each of its conditions; a
\* lookup may be kept and made again
NextExercises == GetCorrectiveExercises \/ Keep \/ CallAgain \/ Discard
SpecExercises == Init /\ [][NextExercises]_vars

(***************************************************************************)
(* Properties of calculate_acwr                                            *)
(***************************************************************************)
IsCall(f) == fn = f
Returned == out.kind = "return"

\* the sums of the two series of the call; the ratio of the means is
\* (s7 / 7) / (s28 / 28) = 4 * s7 / s28
S7 == Sum(args.last_7_days)
S28 == Sum(args.last_28_days)

\* no entry of the two series is negative
NonNegativeSeries ==
    /\ \A i \in DOMAIN args.last_7_days : args.last_7_days[i] >= 0
    /\ \A i \in DOMAIN args.last_28_days : args.last_28_days[i] >= 0

\* the two series hold 7 and 28 days
WholeWindows == Len(args.last_7_days) = 7 /\ Len(args.last_28_days) = 28

\* the band of the ratio 4 * s7 / s28, for s28 > 0, by integer comparison
BandOf(s7, s28) ==
    IF 2 * (4 * s7) > 3 * s28 THEN "HIGH"
    ELSE IF 10 * (4 * s7) > 13 * s28 THEN "ELEVATED"
    ELSE IF 5 * (4 * s7) < 4 * s28 THEN "UNDERTRAINING"
    ELSE "SAFE"

\* C1: whenever the 28-day mean is greater than 0, the returned risk_level
\* is HIGH if ratio > 1.5, otherwise ELEVATED if ratio > 1.3, otherwise
\* UNDERTRAINING if ratio < 0.8, otherwise SAFE; a ratio of exactly 1.5
\* gives ELEVATED, ratios of exactly 1.3 and 0.8 give SAFE.
C1_RiskBands ==
    (IsCall("calculate_acwr") /\ S28 > 0) =>
        /\ Returned
        /\ out.value.risk_level = BandOf(S7, S28)
        /\ (2 * (4 * S7) = 3 * S28 => out.value.risk_level = "ELEVATED")
        /\ (10 * (4 * S7) = 13 * S28 => out.value.risk_level = "SAFE")
        /\ (5 * (4 * S7) = 4 * S28 => out.value.risk_level = "SAFE")

\* a call with well-formed series whose ratio is exactly 1.5 has returned
\* ELEVATED
C1_Witness ==
    /\ IsCall("calculate_acwr")
    /\ NonNegativeSeries
    /\ WholeWindows
    /\ S28 > 0
    /\ 2 * (4 * S7) = 3 * S28
    /\ Returned
    /\ out.value.risk_level = "ELEVATED"

\* C2: when the 28-day mean is 0 (as for 7 zeros and 28 zeros) the call
\* returns INSUFFICIENT_DATA with ratio 0 as a normal result: no fault is
\* raised and the result's status is not an error status.
C2_InsufficientDataIsNormal ==
    (IsCall("calculate_acwr") /\ NonNegativeSeries /\ S28 = 0) =>
        /\ Returned
        /\ out.value.risk_level = "INSUFFICIENT_DATA"
        /\ out.value.ratio = RInt(0)
        /\ out.value.status # "error"

(***************************************************************************)
(* Properties of all four tools                                            *)
(***************************************************************************)
\* C3: every call of a tool ends by returning a result that carries a
\* status; none ends in a raised exception.
C3_NeverRaises ==
    fn # "none" => (Returned /\ "status" \in DOMAIN out.value)

\* the arguments of the call are malformed or out of range
InvalidInput ==
    \/ /\ IsCall("adjust_paces_from_race")
       /\ RLe(args.race_distance_miles, RInt(0))
    \/ /\ IsCall("calculate_acwr")
       /\ \/ Len(args.last_7_days) # 7
          \/ Len(args.last_28_days) # 28
          \/ \E i \in DOMAIN args.last_7_days : args.last_7_days[i] < 0
          \/ \E i \in DOMAIN args.last_28_days : args.last_28_days[i] < 0
    \/ /\ IsCall("calculate_weekly_mileage_progression")
       /\ \/ RLt(args.current_mileage, RInt(0))
          \/ RLt(args.target_mileage, RInt(0))
          \/ args.weeks_available <= 0

\* C4: malformed or out-of-range numeric arguments never produce a result
\* with status success.
C4_InvalidInputRejected ==
    InvalidInput => ~(Returned /\ out.value.status = "success")

(***************************************************************************)
(* Properties of adjust_paces_from_race                                    *)
(***************************************************************************)
RAbs(a) == [n |-> Abs(a.n), d |-> a.d]

\* x is y rounded to k decimals: x is a multiple of 10^-k within half a
\* unit of y
IsRounded(x, y, k) ==
    /\ Pow10(k) % x.d = 0
    /\ RLe(RAbs(RSub(x, y)), Rat(1, 2 * Pow10(k)))

\* the race pace of the call, time / distance (the distance is not 0)
RacePace == RDiv(args.race_time_minutes, args.race_distance_miles)

PacesCall == IsCall("adjust_paces_from_race") /\ Returned

IsRace(miles, minutes) ==
    /\ IsCall("adjust_paces_from_race")
    /\ args.race_distance_miles = RInt(miles)
    /\ args.race_time_minutes = RInt(minutes)

ClaimedFactor(miles) ==
    IF ~RLt(miles, RInt(20)) THEN Rat(102, 100)
    ELSE IF ~RLt(miles, RInt(13)) THEN Rat(105, 100)
    ELSE Rat(108, 100)

\* C6: the marathon prediction equals racePace x 26.2 x f (to the one
\* decimal it is reported with), where f = 1.02 for a distance >= 20 miles,
\* 1.05 for >= 13 and < 20 miles, 1.08 for < 13 miles.
C6_PredictionFactor ==
    PacesCall =>
        IsRounded(out.value.marathon_prediction_minutes,
                  RMul(RMul(RacePace, Rat(262, 10)),
                       ClaimedFactor(args.race_distance_miles)),
                  1)

\* a race of exactly 20 miles has been predicted with the factor 1.02,
\* which the factor 1.05 would not have given
C6_Witness ==
    /\ PacesCall
    /\ args.race_distance_miles = RInt(20)
    /\ RGt(args.race_time_minutes, RInt(0))
    /\ ~IsRounded(out.value.marathon_prediction_minutes,
                  RMul(RMul(RacePace, Rat(262, 10)), Rat(105, 100)), 1)

\* 35 + (10 - pace) x 3.5 clamped to [25, 85]
ClampedScore(pace) ==
    LET raw == RSub(RInt(70), RMul(pace, Rat(7, 2)))
    IN  IF RLt(raw, RInt(25)) THEN RInt(25)
        ELSE IF RGt(raw, RInt(85)) THEN RInt(85)
        ELSE raw

ValidRace(miles, minutes) == RGt(miles, RInt(0)) /\ RGt(minutes, RInt(0))

Digit == <<"0", "1", "2", "3", "4", "5", "6", "7", "8", "9">>
TwoDigits(m) == Digit[(m \div 10) + 1] \o Digit[(m % 10) + 1]

\* the predicted minutes of the call, before they are rounded for the report
PredictedMinutes == MarathonPrediction(args.race_distance_miles, RacePace)

\* C9: the display string is H:MM with MM written with exactly two digits,
\* 0 <= MM <= 59 and H x 60 + MM <= p < H x 60 + MM + 1 for the predicted
\* minutes p.
C9_DisplayString ==
    PacesCall =>
        \E H \in -24 .. 24, MM \in 0 .. 59 :
            /\ RLe(RInt(H * 60 + MM), PredictedMinutes)
            /\ RLt(PredictedMinutes, RInt(H * 60 + MM + 1))
            /\ out.value.marathon_prediction_time = ToString(H) \o ":" \o TwoDigits(MM)

\* a prediction whose minutes part is below 10 has been displayed
C9_Witness ==
    /\ PacesCall
    /\ RGe(PredictedMinutes, RInt(60))
    /\ RLt(Mod(PredictedMinutes, RInt(60)), RInt(10))

\* C10: the result carries an improvement description exactly when a prior
\* fitness score is supplied (for every supplied value, 0 included); when
\* none is supplied the improvement field is absent from the result.
C10_ImprovementOptional ==
    (PacesCall /\ ValidRace(args.race_distance_miles, args.race_time_minutes)) =>
        IF args.current_vdot # <<>>
        THEN /\ "improvement" \in DOMAIN out.value
             /\ out.value.improvement # None
        ELSE "improvement" \notin DOMAIN out.value

(***************************************************************************)
(* Properties of calculate_weekly_mileage_progression                      *)
(***************************************************************************)
ProgressionCall == IsCall("calculate_weekly_mileage_progression") /\ Returned

\* the plan of the call, and its last entry
Plan == out.value.weekly_plan
FinalWeek == Plan[Len(Plan)]

\* current_mileage >= 0, target_mileage >= 0 and weeks_available >= 1
WellFormedProgression ==
    /\ RGe(args.current_mileage, RInt(0))
    /\ RGe(args.target_mileage, RInt(0))
    /\ args.weeks_available >= 1

\* the growth rate the claims give for an ability level
ClaimedRate(level) ==
    IF level = "beginner" THEN Rat(10, 100)
    ELSE IF level = "intermediate" THEN Rat(12, 100)
    ELSE IF level = "advanced" THEN Rat(15, 100)
    ELSE IF level = "elite" THEN Rat(18, 100)
    ELSE Rat(10, 100)

\* min(previous + min(previous x rate, target - previous), target)
ClaimedBuild(previous, rate, target) ==
    LET grown == RMul(previous, rate)
        gap == RSub(target, previous)
        step == IF RLt(gap, grown) THEN gap ELSE grown
        sum == RAdd(previous, step)
    IN  IF RLt(target, sum) THEN target ELSE sum

\* the unrounded mileage of week w of the call, week 0 being the current
\* mileage: 0.8 times the week before in a week that is a multiple of 4,
\* the build step otherwise
RECURSIVE Unrounded(_)
Unrounded(w) ==
    IF w = 0 THEN args.current_mileage
    ELSE IF w % 4 = 0 THEN RMul(Rat(8, 10), Unrounded(w - 1))
    ELSE ClaimedBuild(Unrounded(w - 1), ClaimedRate(args.ability_level),
                      args.target_mileage)

\* C11: in every plan, week w is of type recovery exactly when w is a
\* multiple of 4 and of type build otherwise, and the mileage of a recovery
\* week is 0.8 times the unrounded mileage of the week before it (reported
\* to one decimal), not the result of applying the growth rate.
C11_RecoveryWeeks ==
    ProgressionCall =>
        \A w \in DOMAIN Plan :
            /\ Plan[w].type = (IF w % 4 = 0 THEN "recovery" ELSE "build")
            /\ (w % 4 = 0) =>
                  IsRounded(Plan[w].mileage,
                            RMul(Rat(8, 10), Unrounded(w - 1)), 1)

\* a plan of eight weeks or more whose weeks 4 and 8 are recovery weeks
\* below the week before, where the growth rate would not have lowered the
\* mileage: week 3 was still below the target, week 7 had reached it
C11_Witness ==
    /\ ProgressionCall
    /\ Len(Plan) >= 8
    /\ Plan[4].type = "recovery"
    /\ Plan[8].type = "recovery"
    /\ RLt(RInt(0), Plan[3].mileage)
    /\ RLt(Plan[3].mileage, args.target_mileage)
    /\ Plan[7].mileage = args.target_mileage
    /\ RLt(Plan[4].mileage, Plan[3].mileage)
    /\ RLt(Plan[8].mileage, Plan[7].mileage)

\* C12: on every build week the new mileage is
\* min(previous + min(previous x rate, target - previous), target) (reported
\* to one decimal), with rate 0.10 for beginner, 0.12 for intermediate, 0.15
\* for advanced, 0.18 for elite and 0.10 for any other ability level, which
\* does not fail; a build week never raises the mileage by more than
\* previous x rate.
C12_BuildWeeks ==
    /\ (IsCall("calculate_weekly_mileage_progression")
           /\ args.weeks_available >= 1) => Returned
    /\ ProgressionCall =>
        \A w \in DOMAIN Plan :
            (w % 4 # 0) =>
                LET previous == Unrounded(w - 1)
                    rate == ClaimedRate(args.ability_level)
                IN  /\ IsRounded(Plan[w].mileage,
                                 ClaimedBuild(previous, rate, args.target_mileage),
                                 1)
                    /\ RLe(RSub(Unrounded(w), previous), RMul(previous, rate))
                    /\ RLe(Plan[w].mileage,
                           RAdd(RAdd(previous, RMul(previous, rate)), Rat(1, 20)))

\* a plan for an ability level that is not one of the four has grown by
\* 10% in its first week, below the target and away from what 12% gives
C12_Witness ==
    /\ ProgressionCall
    /\ args.ability_level \notin {"beginner", "intermediate", "advanced", "elite"}
    /\ RGt(args.current_mileage, RInt(0))
    /\ Plan[1].mileage = RMul(args.current_mileage, Rat(11, 10))
    /\ RLt(Plan[1].mileage, args.target_mileage)
    /\ Plan[1].mileage # RMul(args.current_mileage, Rat(112, 100))

\* C13: for current_mileage >= 0, target_mileage >= 0 and
\* weeks_available >= 1 no week of the plan, the final week included,
\* reports a mileage above target_mileage.
C13_NeverAboveTarget ==
    (ProgressionCall /\ WellFormedProgression) =>
        \A w \in DOMAIN Plan : RLe(Plan[w].mileage, args.target_mileage)

\* C14: is_achievable is true exactly when the final week's mileage is at
\* least 0.9 x target_mileage, and the recommendation is "Safe progression"
\* exactly when is_achievable is true.
C14_Achievable ==
    ProgressionCall =>
        /\ out.value.is_achievable
              <=> ~RLt(FinalWeek.mileage, RMul(Rat(9, 10), args.target_mileage))
        /\ (out.value.recommendation = "Safe progression")
              <=> out.value.is_achievable

\* a plan that ends between 90% of its target and the target has been
\* reported achievable
C14_Witness ==
    /\ ProgressionCall
    /\ WellFormedProgression
    /\ RLt(FinalWeek.mileage, args.target_mileage)
    /\ out.value.is_achievable
    /\ out.value.recommendation = "Safe progression"

\* C15: for weeks_available = n >= 1 the plan has exactly n entries with
\* the week numbers 1, 2, ..., n in order, each depending only on the state
\* carried from the week before, so that the plan for fewer weeks is the
\* beginning of this one; with n = 1 the plan has one entry and
\* is_achievable tells whether that week reaches 90% of the target.
C15_PlanLength ==
    (IsCall("calculate_weekly_mileage_progression")
        /\ args.weeks_available >= 1) =>
        /\ Returned
        /\ Len(Plan) = args.weeks_available
        /\ \A w \in DOMAIN Plan : Plan[w].week = w
        /\ \A m \in 1 .. (args.weeks_available - 1) :
              calculate_weekly_mileage_progression(
                  args.current_mileage, args.target_mileage, m,
                  args.ability_level).value.weekly_plan = SubSeq(Plan, 1, m)
        /\ (args.weeks_available = 1) =>
              /\ Len(Plan) = 1
              /\ out.value.is_achievable
                    <=> ~RLt(Plan[1].mileage,
                             RMul(Rat(9, 10), args.target_mileage))

\* a plan for one week has one entry, which falls short of 90% of the
\* target, and is reported not achievable
C15_Witness ==
    /\ ProgressionCall
    /\ WellFormedProgression
    /\ args.weeks_available = 1
    /\ Len(Plan) = 1
    /\ Plan[1].week = 1
    /\ RLt(Plan[1].mileage, RMul(Rat(9, 10), args.target_mileage))
    /\ ~out.value.is_achievable

(***************************************************************************)
(* Properties of get_corrective_exercises                                  *)
(***************************************************************************)
ExercisesCall == IsCall("get_corrective_exercises")

\* the keys of the catalog
CatalogKeys ==
    {"IT_band", "plantar_fasciitis", "achilles_tendonitis", "shin_splints",
     "runners_knee"}

\* the result carries every field of the catalog entry, with its value
CarriesEntry(result, entry) ==
    \A k \in DOMAIN entry : k \in DOMAIN result /\ result[k] = entry[k]

\* C16: with a readable catalog the call returns status success with the
\* fields of the catalog entry exactly when the injury-type string is a key
\* of the catalog; for every other string, a key in another letter case
\* included, it returns the unknown-key error whose available-types list
\* holds exactly the keys of the catalog.
C16_ExactMatchLookup ==
    (ExercisesCall /\ library_file = "ok") =>
        /\ Returned
        /\ (out.value.status = "success") <=> (args.injury_type \in CatalogKeys)
        /\ (args.injury_type \in CatalogKeys) =>
              CarriesEntry(out.value, ExerciseLibrary[args.injury_type])
        /\ (args.injury_type \notin CatalogKeys) =>
              /\ out.value.status = "error"
              /\ "available_types" \in DOMAIN out.value
              /\ out.value.available_types = CatalogKeys

\* a key written in another letter case has been answered with the
\* unknown-key error that lists the key in its own case
C16_Witness ==
    /\ ExercisesCall
    /\ library_file = "ok"
    /\ args.injury_type = "it_band"
    /\ Returned
    /\ out.value.status = "error"
    /\ "IT_band" \in out.value.available_types

\* the values of the entries of an error result other than its list of
\* available types: what a program can read the kind of the error from
ResultCodes(result) ==
    {result[k] : k \in DOMAIN result \ {"available_types", "error_message"}}

\* C17: when the catalog cannot be opened or parsed the call returns an
\* error result, not an exception and never status success, that carries
\* the error kind DATA_UNAVAILABLE, by which the caller tells it apart from
\* the NOT_FOUND error of an unknown key.
C17_DataUnavailable ==
    (ExercisesCall /\ library_file # "ok") =>
        /\ Returned
        /\ out.value.status # "success"
        /\ "DATA_UNAVAILABLE" \in ResultCodes(out.value)
        /\ ResultCodes(out.value)
              # ResultCodes(get_corrective_exercises("nonexistent_injury", "ok").value)

\* C18: over any sequence of calls the exercise catalog, its file being in
\* place, is loaded from the file at most once; later calls do not read the
\* file again.
C18_LoadedAtMostOnce ==
    (library_file = "ok") => library_opens <= 1

(***************************************************************************)
(* Properties of repeated calls                                            *)
(***************************************************************************)
\* the call is the kept call made again
SameCallAsKept == kept # None /\ fn = kept.fn /\ args = kept.args

WithEmail(users, email) == {i \in DOMAIN users : users[i].email = email}

\* C20: save_profile adds or updates by email: if the users file holds a
\* record with the profile's email, that record is replaced in place by the
\* profile's dictionary and the number of records is unchanged; otherwise
\* the dictionary is appended and the number of records grows by one; in
\* both cases every record with another email keeps its content and its
\* place among the others.
C20_AddOrUpdateByEmail ==
    [][(fn' = "save_profile") =>
        LET profile == args'.profile
            before == IF users_file.exists THEN users_file.users ELSE <<>>
            after == users_file'.users
            held == WithEmail(before, profile.email)
        IN  /\ users_file'.exists
            /\ IF held # {}
               THEN /\ Len(after) = Len(before)
                    /\ \E i \in held : after[i] = to_dict(profile)
               ELSE /\ Len(after) = Len(before) + 1
                    /\ after[Len(after)] = to_dict(profile)
            /\ \A i \in DOMAIN before :
                  before[i].email # profile.email => after[i] = before[i]
      ]_vars

\* a profile has been saved over the first of three records, which then
\* holds another name than the second and third
C20_Witness ==
    /\ fn = "save_profile"
    /\ users_file.exists
    /\ Len(users_file.users) = 3
    /\ users_file.users[1] = to_dict(args.profile)
    /\ users_file.users[2].name # users_file.users[1].name
    /\ users_file.users[3].email # users_file.users[1].email

(***************************************************************************)
(* Properties of load_profile and list_all_users                           *)
(***************************************************************************)
LoadCall == IsCall("load_profile")

\* the record the users file holds under the email of the call, if any
StoredUnder(email) ==
    LET users == users_file.users
        held == WithEmail(users, email)
    IN  IF users_file.exists /\ held # {}
        THEN <<users[CHOOSE i \in held : \A j \in held : i <= j]>> ELSE <<>>

\* C21: for every profile p written with save_profile, complete or not (so
\* also with no goal race date), load_profile(p.email) on the same file
\* returns, without raising, a profile whose to_dict() equals p.to_dict(),
\* which is the record save_profile stored under p.email; load_profile
\* returns None when the file does not exist or holds no record with that
\* email.
C21_LoadReturnsWhatWasSaved ==
    LoadCall =>
        /\ Returned
        /\ IF StoredUnder(args.email) = <<>>
           THEN out.value = None
           ELSE /\ out.value # None
                /\ to_dict(out.value) = StoredUnder(args.email)[1]

(***************************************************************************)
(* Properties of setup_profile                                             *)
(***************************************************************************)
\* setup_profile has returned, and no call has returned since
SetupReturned == IsCall("setup_profile") /\ Returned

\* C22: every profile returned by setup_profile is completed: is_complete()
\* is true (name, email, age, goal distance, ability level, current weekly
\* mileage and goal race date are all set), and its email is a string
\* containing both '@' and '.', for every sequence of lines typed,
\* including an invalid first email entry.
C22_SetupReturnsCompleteProfile ==
    SetupReturned =>
        /\ is_complete(out.value)
        /\ Contains("@", out.value.email[1])
        /\ Contains(".", out.value.email[1])

\* C29: every constraint that setup_profile enforces at first entry holds
\* of the profile it returns and saves, after any sequence of edit-menu
\* choices: the age is between 10 and 100, the weekly mileage is >= 0, the
\* goal race date is not in the past, with a milestone the milestone date
\* is strictly before the goal race date and the milestone distance is > 0,
\* and without a milestone the milestone date and distance are unset.
C29_EditsKeepConstraints ==
    SetupReturned =>
        LET p == out.value
        IN  /\ p.age # <<>> /\ p.age[1] >= 10 /\ p.age[1] <= 100
            /\ p.current_weekly_mileage # <<>>
            /\ RGe(p.current_weekly_mileage[1], RInt(0))
            /\ p.goal_race_date # <<>> /\ ~BeforeNow(p.goal_race_date[1])
            /\ p.has_milestone =>
                  /\ p.milestone_date # <<>>
                  /\ DateLt(p.milestone_date[1], p.goal_race_date[1])
                  /\ p.milestone_distance # <<>>
                  /\ RGt(p.milestone_distance[1], RInt(0))
            /\ ~p.has_milestone =>
                  p.milestone_date = <<>> /\ p.milestone_distance = <<>>
            /\ \E i \in DOMAIN users_file.users : users_file.users[i] = to_dict(p)

(***************************************************************************)
(* The reported ratio of calculate_acwr and its risk level                 *)
(***************************************************************************)
AcwrSuccess == IsCall("calculate_acwr") /\ Returned /\ out.value.status = "success"

\* the band a reported ratio lies in: HIGH above 1.5, ELEVATED above 1.3 up
\* to 1.5, UNDERTRAINING below 0.8, SAFE from 0.8 up to 1.3
ReportedBand(ratio) ==
    CASE RGt(ratio, Rat(15, 10)) -> "HIGH"
      [] RGt(ratio, Rat(13, 10)) /\ RLe(ratio, Rat(15, 10)) -> "ELEVATED"
      [] RGe(ratio, Rat(8, 10)) /\ RLe(ratio, Rat(13, 10)) -> "SAFE"
      [] RLt(ratio, Rat(8, 10)) -> "UNDERTRAINING"

\* C23, as claimed: in every success result of calculate_acwr the risk
\* level is the band of the returned, 2-decimal ratio: a result reporting a
\* ratio <= 1.5 is never HIGH, one reporting a ratio <= 1.3 is never
\* ELEVATED or HIGH, one reporting a ratio >= 0.8 is never UNDERTRAINING,
\* so two results with the same reported ratio have the same risk level.
C23_BandOfReportedRatio ==
    AcwrSuccess => out.value.risk_level = ReportedBand(out.value.ratio)

\* the bands a reported ratio can come with: its own band, and at a
\* reported 1.5, 1.3 or 0.8 also the band beyond that threshold
BandsOfReported(ratio) ==
    {ReportedBand(ratio)}
        \cup (IF ratio = Rat(15, 10) THEN {"HIGH"} ELSE {})
        \cup (IF ratio = Rat(13, 10) THEN {"ELEVATED"} ELSE {})
        \cup (IF ratio = Rat(8, 10) THEN {"UNDERTRAINING"} ELSE {})

\* C23, amended: the risk level is the band of the ratio before it is
\* rounded, so it is the band of the reported ratio unless the reported
\* ratio is exactly 1.5, 1.3 or 0.8, where it may also be the band beyond
\* the threshold: a result reporting a ratio < 1.5 is never HIGH, one
\* reporting a ratio < 1.3 is never ELEVATED or HIGH, one reporting a ratio
\* > 0.8 is never UNDERTRAINING, and two results with the same reported
\* ratio other than 1.5, 1.3 and 0.8 have the same risk level.
C23_BandWithinRounding ==
    AcwrSuccess => out.value.risk_level \in BandsOfReported(out.value.ratio)

\* a well-formed call reports the ratio 1.5 with the risk level HIGH: the
\* ratio is above 1.5 and rounds to it
C23_Witness ==
    /\ AcwrSuccess
    /\ WholeWindows
    /\ NonNegativeSeries
    /\ out.value.ratio = Rat(15, 10)
    /\ out.value.risk_level = "HIGH"
    /\ 2 * 4 * S7 > 3 * S28

(***************************************************************************)
(* Plans of calculate_weekly_mileage_progression for more weeks            *)
(***************************************************************************)
\* the outcome of the call of the state made with m weeks instead
WithWeeks(m) ==
    calculate_weekly_mileage_progression(
        args.current_mileage, args.target_mileage, m, args.ability_level)

\* C24: asking for more weeks never turns an achievable plan into a
\* non-achievable one: for fixed current mileage, target mileage and
\* ability level, if the plan for n weeks is reported achievable then the
\* plan for every m > n weeks is reported achievable.
C24_MoreWeeksStayAchievable ==
    (ProgressionCall /\ out.value.is_achievable) =>
        \A m \in WeeksFor(args.current_mileage) :
            m > args.weeks_available => WithWeeks(m).value.is_achievable

\* weeks_available is a positive multiple of 4, target_mileage >= 1 and
\* current_mileage >= 0
EndsInRecovery ==
    /\ ProgressionCall
    /\ args.weeks_available > 0
    /\ args.weeks_available % 4 = 0
    /\ RGe(args.target_mileage, RInt(1))
    /\ RGe(args.current_mileage, RInt(0))

\* the plan is reported not achievable
TooAggressive ==
    /\ ~out.value.is_achievable
    /\ out.value.recommendation = "Target too aggressive - need more weeks"

C26_NoGrowthFromZero ==
    (ProgressionCall /\ args.current_mileage = RInt(0)) =>
        /\ \A w \in DOMAIN Plan : Plan[w].mileage = RInt(0)
        /\ RGt(args.target_mileage, RInt(0)) => TooAggressive

\* a plan of the most weeks planned from 0 miles to a positive target: its
\* last build week is still at 0 miles
C26_Witness ==
    /\ ProgressionCall
    /\ args.current_mileage = RInt(0)
    /\ RGt(args.target_mileage, RInt(0))
    /\ args.weeks_available = MaxWeeks
    /\ Len(Plan) = MaxWeeks
    /\ \E w \in DOMAIN Plan : Plan[w].type = "build" /\ w > 4 /\ Plan[w].mileage = RInt(0)
    /\ ~out.value.is_achievable

(***************************************************************************)
(* The records of the users file                                           *)
(***************************************************************************)
\* the entry "Name (email)" of a record, None being printed as "None"
Entry(user) ==
    (IF user.name = <<>> THEN "None" ELSE user.name[1])
        \o " (" \o (IF user.email = <<>> THEN "None" ELSE user.email[1]) \o ")"

\* C27: starting from a missing or empty users file, after any sequence of
\* save_profile calls no two records of the file have the same email, and
\* list_all_users returns exactly one "Name (email)" entry for each stored
\* record, in stored order.
C27_OneRecordPerEmail ==
    /\ \A i, j \in DOMAIN users_file.users :
          users_file.users[i].email = users_file.users[j].email => i = j
    /\ IsCall("list_all_users") =>
          /\ Returned
          /\ Len(out.value) = Len(users_file.users)
          /\ \A i \in DOMAIN users_file.users :
                out.value[i] = Entry(users_file.users[i])

\* the users are listed from a file of three records, one of them without
\* an email, whose first record has been saved last
C27_Witness ==
    /\ IsCall("list_all_users")
    /\ Len(users_file.users) = 3
    /\ \E i \in 1 .. 3 : users_file.users[i].email = <<>>
    /\ out.value[1] = "Bo (ana@example.com)"
    /\ out.value[2] \in {"Ana (None)", "Ana (bo@example.com)"}

(***************************************************************************)
(* Properties of get_user_profile                                          *)
(***************************************************************************)
\* get_user_profile has returned a profile that setup_profile built
ReturnedFromSetup ==
    /\ IsCall("get_user_profile")
    /\ Returned
    /\ caller = "get_user_profile"

\* C28: whenever get_user_profile returns a profile that was created (new
\* user) or updated (existing user answering yes) through setup_profile,
\* the users file holds that profile's data under the lower-cased email
\* typed at login, no record under any other email was added (a record
\* under another email is the one the file held before), and a later
\* load_profile with the login email returns the new data.
C28_LoginEmailKeepsTheRecord ==
    ReturnedFromSetup =>
        /\ StoredUnder(login) = <<to_dict(out.value)>>
        /\ \A i \in DOMAIN users_file.users :
              users_file.users[i].email # login
                  => users_file.users[i] = to_dict(StoredProfile)
        /\ load_profile(login, users_file) = Return(out.value)

(***************************************************************************)
(* Properties of the chat loop                                             *)
(***************************************************************************)
\* C30: in the chat loop, typing 'menu' returns the user to the main menu,
\* while after 'exit' or 'quit' the application ends and the main menu is
\* not prompted again; an empty input is ignored, and an agent error keeps
\* the chat loop running.
C30_ExitEndsTheApplication ==
    [][/\ pc = "chat" =>
            LET user_input == Strip(typed'[1])
            IN  /\ user_input = "" => pc' = "chat"
                /\ Lower(user_input) = "menu" => pc' = "main_menu"
                /\ Lower(user_input) \in {"exit", "quit"} => pc' = "exited"
       /\ (pc = "chat_agent" /\ agent' = "error") => pc' = "chat"]_vars

=============================================================================
